---- MODULE Spec2Model ----
(***************************************************************************)
(* Model of src/session/map.rs: the process-wide registry of per-kind      *)
(* event-sink tables (SESSION_KIND_MAP) and the per-key event-sink slot    *)
(* (EventSinkEntry, a tokio watch::Receiver of an optional sink).          *)
(***************************************************************************)
EXTENDS Integers, FiniteSets

\* ------------------------------------------------------------------ bounds
NumTasks == 2          \* tasks calling into the registry
NumKinds == 2          \* distinct session kinds (TypeId values)
NumConsumers == 2      \* tasks reading one slot through one EventSinkEntry
NumSinks == 2          \* distinct EventSinkCtx values a producer may publish
MaxPublish == 3        \* broadcasts the producer makes before it stops
NumKeys == 2           \* distinct session keys of one kind's table

Tasks == 1..NumTasks
Kinds == 1..NumKinds

\* ------------------------------------------------------- registry: values
\* A table handle is an Arc: an allocation identity plus the concrete type it
\* was built as (EventSinkMap<of>).  NoTable is the absent map entry.
NoTable == [id |-> 0, of |-> 0]
NoTask == 0

NoResult == [tag |-> "none", table |-> NoTable]
ErrUnit == [tag |-> "Err", table |-> NoTable]
OkTable(tbl) == [tag |-> "Ok", table |-> tbl]

VARIABLES
    registry,     \* SESSION_KIND_MAP contents: kind -> table handle or NoTable
    readers,      \* tasks holding the registry RwLock in shared mode
    writer,       \* task holding the registry RwLock exclusively, or NoTask
    nextTable,    \* identity of the next Arc::new allocation
    constructed,  \* history: kind -> number of tables constructed for it
    rpc,          \* position of each task in its call
    rkind,        \* kind T of the call in progress
    rop,          \* "lookup" (get_event_sink_map) or "create" (get_or_create_..)
    rres          \* value the task holds: Result of the step it last finished

rvars == <<registry, readers, writer, nextTable, constructed, rpc, rkind, rop, rres>>

\* ------------------------------------------------------------ slot: values
Consumers == 1..NumConsumers
NoSink == 0                       \* Option::None in the watch cell
Sinks == 1..NumSinks
CellValues == {NoSink} \cup Sinks

NoOutcome == [tag |-> "none", sink |-> NoSink]
Continue == [tag |-> "continue", sink |-> NoSink]
Suspend == [tag |-> "pending", sink |-> NoSink]
OkSink(v) == [tag |-> "Ok", sink |-> v]
ErrClosed == [tag |-> "Err", sink |-> NoSink]        \* anyhow!("Session closed")
SomeSink(v) == [tag |-> "Some", sink |-> v]
Nothing == [tag |-> "Nothing", sink |-> NoSink]

VARIABLES
    value,      \* the watch cell: NoSink (Unset) or a sink (Set)
    version,    \* the channel's version counter, bumped by every broadcast
    closed,     \* the channel's CLOSED bit: the Sender has been dropped
    entryVer,   \* last version seen by the entry's own receiver (self.rx)
    everSet,    \* history: some broadcast carried a sink
    retracted,  \* history: the sink most recently retracted to None, or NoSink
    cpc,        \* consumer position: "idle", "recv", "pending", "done"
    cop,        \* "get" or "try_get"
    cver,       \* last version seen by the call's private clone of rx
    cres,       \* what the call returned
    csusp,      \* the call returned Poll::Pending at least once
    cquiet      \* history: nothing was published or closed since the call began

svars == <<value, version, closed, entryVer, everSet, retracted,
           cpc, cop, cver, cres, csusp, cquiet>>

\* ----------------------------------------------------------- table: values
Keys == 1..NumKeys
NoSlot == 0                       \* HashMap::get returning None

VARIABLES
    tslots,     \* one EventSinkMap<T>: key -> identity of its slot, or NoSlot
    treaders,   \* tasks holding the table's RwLock in shared mode
    twriter,    \* task holding the table's RwLock exclusively, or NoTask
    tnextSlot,  \* identity of the next slot to be created
    tmade,      \* history: key -> number of slots created for it
    tpc,        \* position of each task in its entry(key) call
    tkey,       \* key of the call in progress
    tres        \* slot the call holds, or NoSlot

tvars == <<tslots, treaders, twriter, tnextSlot, tmade, tpc, tkey, tres>>

RInit ==
    /\ registry = [k \in Kinds |-> NoTable]
    /\ readers = {}
    /\ writer = NoTask
    /\ nextTable = 1
    /\ constructed = [k \in Kinds |-> 0]
    /\ rpc = [t \in Tasks |-> "idle"]
    /\ rkind = [t \in Tasks |-> 1]
    /\ rop = [t \in Tasks |-> "none"]
    /\ rres = [t \in Tasks |-> NoResult]

\* Arc<dyn Any>::downcast::<EventSinkMap<T>>(): succeeds iff the concrete type
\* of the allocation is EventSinkMap<T>.
DowncastOk(tbl, k) == tbl.of = k

\* locked.get(&TypeId::of::<T>()) under the shared lock.
Probe(reg, k) == reg[k]

\* A task starts get_event_sink_map::<k>() or get_or_create_event_sink_map::<k>();
\* both begin with try_get_event_sink_map, which awaits the shared lock.
CallLookup(t, k) ==
    /\ rpc[t] = "idle"
    /\ rpc' = [rpc EXCEPT ![t] = "tg_wait"]
    /\ rkind' = [rkind EXCEPT ![t] = k]
    /\ rop' = [rop EXCEPT ![t] = "lookup"]
    /\ rres' = [rres EXCEPT ![t] = NoResult]
    /\ UNCHANGED <<registry, readers, writer, nextTable, constructed>>
    /\ UNCHANGED <<svars, tvars>>

CallGetOrCreate(t, k) ==
    /\ rpc[t] = "idle"
    /\ rpc' = [rpc EXCEPT ![t] = "tg_wait"]
    /\ rkind' = [rkind EXCEPT ![t] = k]
    /\ rop' = [rop EXCEPT ![t] = "create"]
    /\ rres' = [rres EXCEPT ![t] = NoResult]
    /\ UNCHANGED <<registry, readers, writer, nextTable, constructed>>
    /\ UNCHANGED <<svars, tvars>>

\* map.read().await completes: no task holds the lock exclusively.
TryGetLock(t) ==
    /\ rpc[t] = "tg_wait"
    /\ writer = NoTask
    /\ readers' = readers \cup {t}
    /\ rpc' = [rpc EXCEPT ![t] = "tg_locked"]
    /\ UNCHANGED <<registry, writer, nextTable, constructed, rkind, rop, rres>>
    /\ UNCHANGED <<svars, tvars>>

\* Variant: the probe registers a fresh table on a miss.
TryGetProbeInserting(t) ==
    /\ rpc[t] = "tg_locked"
    /\ LET k == rkind[t]
           fresh == [id |-> nextTable, of |-> k]
       IN IF Probe(registry, k) = NoTable
          THEN /\ registry' = [registry EXCEPT ![k] = fresh]
               /\ nextTable' = nextTable + 1
               /\ constructed' = [constructed EXCEPT ![k] = @ + 1]
               /\ rres' = [rres EXCEPT ![t] = OkTable(fresh)]
          ELSE /\ rres' = [rres EXCEPT ![t] = OkTable(registry[k])]
               /\ UNCHANGED <<registry, nextTable, constructed>>
    /\ rpc' = [rpc EXCEPT ![t] = "tg_ret"]
    /\ readers' = readers \ {t}
    /\ UNCHANGED <<writer, rkind, rop>>
    /\ UNCHANGED <<svars, tvars>>

\* Variant: the shared guard outlives the probe and is still held while the
\* call goes on to the exclusive lock.
TryGetProbeKeepsGuard(t) ==
    /\ rpc[t] = "tg_locked"
    /\ LET hit == Probe(registry, rkind[t]) IN
         IF hit = NoTable
         THEN /\ rres' = [rres EXCEPT ![t] = ErrUnit]
              /\ rpc' = [rpc EXCEPT ![t] = "tg_ret"]
              /\ readers' = readers
         ELSE /\ rres' = [rres EXCEPT ![t] = OkTable(hit)]
              /\ rpc' = [rpc EXCEPT ![t] = "tg_ret"]
              /\ readers' = readers \ {t}
    /\ UNCHANGED <<registry, writer, nextTable, constructed, rkind, rop>>
    /\ UNCHANGED <<svars, tvars>>

\* Under the shared lock: probe, downcast-and-unwrap on a hit, ok_or(()) on a
\* miss; the guard is dropped when the function returns (or unwinds).
TryGetProbe(t) ==
    /\ rpc[t] = "tg_locked"
    /\ LET hit == Probe(registry, rkind[t]) IN
         IF hit = NoTable
         THEN /\ rres' = [rres EXCEPT ![t] = ErrUnit]
              /\ rpc' = [rpc EXCEPT ![t] = "tg_ret"]
         ELSE IF DowncastOk(hit, rkind[t])
         THEN /\ rres' = [rres EXCEPT ![t] = OkTable(hit)]
              /\ rpc' = [rpc EXCEPT ![t] = "tg_ret"]
         ELSE /\ rres' = [rres EXCEPT ![t] = NoResult]
              /\ rpc' = [rpc EXCEPT ![t] = "panicked"]
    /\ readers' = readers \ {t}
    /\ UNCHANGED <<registry, writer, nextTable, constructed, rkind, rop>>
    /\ UNCHANGED <<svars, tvars>>

\* Variant: the lookup hands the Err(()) to its caller as a value.
LookupReturnsErr(t) ==
    /\ rpc[t] = "tg_ret"
    /\ rop[t] = "lookup"
    /\ rpc' = [rpc EXCEPT ![t] = "done"]
    /\ UNCHANGED <<registry, readers, writer, nextTable, constructed, rkind, rop, rres>>
    /\ UNCHANGED <<svars, tvars>>

\* get_event_sink_map: try_get_event_sink_map(..).await.unwrap()
LookupUnwrap(t) ==
    /\ rpc[t] = "tg_ret"
    /\ rop[t] = "lookup"
    /\ IF rres[t].tag = "Ok"
       THEN /\ rpc' = [rpc EXCEPT ![t] = "done"]
            /\ rres' = rres
       ELSE /\ rpc' = [rpc EXCEPT ![t] = "panicked"]
            /\ rres' = [rres EXCEPT ![t] = NoResult]
    /\ UNCHANGED <<registry, readers, writer, nextTable, constructed, rkind, rop>>
    /\ UNCHANGED <<svars, tvars>>

\* Variant: the creation path runs whether the probe hit or missed.
OrElseAlwaysCreates(t) ==
    /\ rpc[t] = "tg_ret"
    /\ rop[t] = "create"
    /\ rpc' = [rpc EXCEPT ![t] = "cr_wait"]
    /\ UNCHANGED <<registry, readers, writer, nextTable, constructed, rkind, rop, rres>>
    /\ UNCHANGED <<svars, tvars>>

\* get_or_create_event_sink_map: Ok passes through or_else to the final
\* unwrap; Err(()) runs create_event_sink_map, which awaits the exclusive lock.
OrElse(t) ==
    /\ rpc[t] = "tg_ret"
    /\ rop[t] = "create"
    /\ IF rres[t].tag = "Ok"
       THEN rpc' = [rpc EXCEPT ![t] = "done"]
       ELSE rpc' = [rpc EXCEPT ![t] = "cr_wait"]
    /\ UNCHANGED <<registry, readers, writer, nextTable, constructed, rkind, rop, rres>>
    /\ UNCHANGED <<svars, tvars>>

\* map.write().await completes: nobody holds the lock in either mode.
CreateLock(t) ==
    /\ rpc[t] = "cr_wait"
    /\ writer = NoTask
    /\ readers = {}
    /\ writer' = t
    /\ rpc' = [rpc EXCEPT ![t] = "cr_locked"]
    /\ UNCHANGED <<registry, readers, nextTable, constructed, rkind, rop, rres>>
    /\ UNCHANGED <<svars, tvars>>

\* Variant: the fresh table is inserted whether or not the entry is occupied.
EntryInsertOverwrite(reg, k, fresh) == [reg EXCEPT ![k] = fresh]

\* Variant: the key does not tell the kinds apart; every vacant entry
\* receives the fresh table.
EntryInsertAnyKind(reg, k, fresh) ==
    [j \in DOMAIN reg |-> IF reg[j] # NoTable THEN reg[j] ELSE fresh]

\* Variant: the fresh table is filed under the next kind's key.
EntryInsertWrongKey(reg, k, fresh) ==
    LET j == (k % NumKinds) + 1
    IN IF reg[j] # NoTable THEN reg ELSE [reg EXCEPT ![j] = fresh]

\* match locked.entry(TypeId::of::<T>()): the registry after the match; an
\* Occupied entry is kept, a Vacant one receives the fresh table.
EntryInsert(reg, k, fresh) ==
    IF reg[k] # NoTable THEN reg ELSE [reg EXCEPT ![k] = fresh]

\* Under the exclusive lock: Occupied reuses the entry, Vacant constructs a
\* default EventSinkMap<T>, wraps it in a new Arc and inserts it.  The guard is
\* dropped at the end of the block.
CreateInsert(t) ==
    /\ rpc[t] = "cr_locked"
    /\ LET k == rkind[t]
           fresh == [id |-> nextTable, of |-> k]
           after == EntryInsert(registry, k, fresh)
       IN /\ registry' = after
          /\ rres' = [rres EXCEPT ![t] = [tag |-> "erased", table |-> after[k]]]
          /\ IF after[k] = fresh
             THEN /\ nextTable' = nextTable + 1
                  /\ constructed' = [constructed EXCEPT ![k] = @ + 1]
             ELSE UNCHANGED <<nextTable, constructed>>
    /\ writer' = NoTask
    /\ rpc' = [rpc EXCEPT ![t] = "cr_cast"]
    /\ UNCHANGED <<readers, rkind, rop>>
    /\ UNCHANGED <<svars, tvars>>

\* event_sink_map.clone().downcast::<EventSinkMap<T>>().or_else(|_| unreachable!()),
\* then the unwrap of Result<_, Never> in get_or_create_event_sink_map.
CreateDowncast(t) ==
    /\ rpc[t] = "cr_cast"
    /\ IF DowncastOk(rres[t].table, rkind[t])
       THEN /\ rres' = [rres EXCEPT ![t] = OkTable(rres[t].table)]
            /\ rpc' = [rpc EXCEPT ![t] = "done"]
       ELSE /\ rres' = [rres EXCEPT ![t] = NoResult]
            /\ rpc' = [rpc EXCEPT ![t] = "panicked"]
    /\ UNCHANGED <<registry, readers, writer, nextTable, constructed, rkind, rop>>
    /\ UNCHANGED <<svars, tvars>>

\* Variant: the entry is removed when the caller is done with the handle.
RegistryReturnEvicts(t) ==
    /\ rpc[t] = "done"
    /\ rpc' = [rpc EXCEPT ![t] = "idle"]
    /\ rres' = [rres EXCEPT ![t] = NoResult]
    /\ rkind' = [rkind EXCEPT ![t] = 1]
    /\ rop' = [rop EXCEPT ![t] = "none"]
    /\ registry' = [registry EXCEPT ![rkind[t]] = NoTable]
    /\ UNCHANGED <<readers, writer, nextTable, constructed>>
    /\ UNCHANGED <<svars, tvars>>

\* The caller takes the returned handle; the task may call again.
RegistryReturn(t) ==
    /\ rpc[t] = "done"
    /\ rpc' = [rpc EXCEPT ![t] = "idle"]
    /\ rres' = [rres EXCEPT ![t] = NoResult]
    /\ rkind' = [rkind EXCEPT ![t] = 1]
    /\ rop' = [rop EXCEPT ![t] = "none"]
    /\ UNCHANGED <<registry, readers, writer, nextTable, constructed>>
    /\ UNCHANGED <<svars, tvars>>

RNext ==
    \E t \in Tasks :
        \/ \E k \in Kinds : CallLookup(t, k)
        \/ \E k \in Kinds : CallGetOrCreate(t, k)
        \/ TryGetLock(t)
        \/ TryGetProbe(t)
        \/ LookupUnwrap(t)
        \/ OrElse(t)
        \/ CreateLock(t)
        \/ CreateInsert(t)
        \/ CreateDowncast(t)
        \/ RegistryReturn(t)


\* ------------------------------------------------------------ slot: model
\* A fresh slot, watch::channel(None) wrapped by EventSinkEntry::new(rx): the
\* cell holds None at its first version and the receiver has seen no version.
SInit ==
    /\ value = NoSink
    /\ version = 1
    /\ closed = FALSE
    /\ entryVer = 0
    /\ everSet = FALSE
    /\ retracted = NoSink
    /\ cpc = [c \in Consumers |-> "idle"]
    /\ cop = [c \in Consumers |-> "none"]
    /\ cver = [c \in Consumers |-> 0]
    /\ cres = [c \in Consumers |-> NoOutcome]
    /\ csusp = [c \in Consumers |-> FALSE]
    /\ cquiet = [c \in Consumers |-> FALSE]

\* Variant: a clone that counts the channel's current version as seen.
CloneRxAsSeen(seen, current) == current

\* self.rx.clone() (tokio 0.2 watch::Receiver): the clone starts from the
\* version the cloned receiver has seen.  get() and try_get() take &self and
\* poll only their clone, so the entry's own receiver never advances.
CloneRx(seen, current) == seen

\* Variant: an unseen version yields a value that has since been retracted.
WatchRecvSuperseded(seen, cell, ver, isClosed, old) ==
    IF seen # ver
    THEN [tag |-> "value", val |-> IF old # NoSink THEN old ELSE cell, seen |-> ver]
    ELSE IF isClosed THEN [tag |-> "closed", val |-> NoSink, seen |-> seen]
    ELSE [tag |-> "pending", val |-> NoSink, seen |-> seen]

\* Variant: a receiver that has seen the current version is told the channel
\* is closed instead of being parked.
WatchRecvClosedWhenSeen(seen, cell, ver, isClosed, old) ==
    IF seen # ver THEN [tag |-> "value", val |-> cell, seen |-> ver]
    ELSE [tag |-> "closed", val |-> NoSink, seen |-> seen]

\* One poll of rx.recv() (tokio 0.2 watch::Receiver): the receiver compares the
\* version it has seen with the channel's before it looks at the CLOSED bit.
\* An unseen version yields Some(current value) and marks it seen, even when
\* the channel is closed; otherwise a closed channel yields None; otherwise
\* the poll is Pending and the task is parked until notify_all.
WatchRecv(seen, cell, ver, isClosed, old) ==
    IF seen # ver THEN [tag |-> "value", val |-> cell, seen |-> ver]
    ELSE IF isClosed THEN [tag |-> "closed", val |-> NoSink, seen |-> seen]
    ELSE [tag |-> "pending", val |-> NoSink, seen |-> seen]

\* Variant: Some(None) breaks with the error instead of waiting on.
GetOutcomeFailOnUnset(r) ==
    IF r.tag = "pending" THEN Suspend
    ELSE IF r.tag = "value" /\ r.val # NoSink THEN OkSink(r.val)
    ELSE ErrClosed

\* Variant: a closed channel is treated like an empty one and waited on.
GetOutcomeRetryOnClosed(r) ==
    IF r.tag = "pending" \/ r.tag = "closed" THEN Suspend
    ELSE IF r.val # NoSink THEN OkSink(r.val)
    ELSE Continue

\* The match in get(): Some(Some(ctx)) => break Ok(ctx), Some(None) => continue,
\* None => break Err("Session closed").
GetOutcome(r) ==
    IF r.tag = "pending" THEN Suspend
    ELSE IF r.tag = "value"
    THEN IF r.val # NoSink THEN OkSink(r.val) ELSE Continue
    ELSE ErrClosed

\* Variant: only an empty cell is told apart; a sink in the cell is dropped.
TryGetOutcomeKeepsNone(r) ==
    IF r.tag = "pending" THEN Suspend ELSE Nothing

\* try_get(): rx.recv().await.flatten()
TryGetOutcome(r) ==
    IF r.tag = "pending" THEN Suspend
    ELSE IF r.tag = "value" /\ r.val # NoSink THEN SomeSink(r.val)
    ELSE Nothing

\* Variant: the call takes the registry's shared lock and keeps the guard
\* while it waits.
StartGetUnderGuard(c) ==
    /\ cpc[c] = "idle"
    /\ writer = NoTask
    /\ readers' = readers \cup {-c}
    /\ cpc' = [cpc EXCEPT ![c] = "recv"]
    /\ cop' = [cop EXCEPT ![c] = "get"]
    /\ cver' = [cver EXCEPT ![c] = CloneRx(entryVer, version)]
    /\ cquiet' = [cquiet EXCEPT ![c] = TRUE]
    /\ UNCHANGED <<value, version, closed, entryVer, everSet, retracted, cres, csusp>>
    /\ UNCHANGED <<registry, writer, nextTable, constructed, rpc, rkind, rop, rres>>
    /\ UNCHANGED tvars

\* A task calls entry.get(): the future's first act is to clone the receiver.
StartGet(c) ==
    /\ cpc[c] = "idle"
    /\ cpc' = [cpc EXCEPT ![c] = "recv"]
    /\ cop' = [cop EXCEPT ![c] = "get"]
    /\ cver' = [cver EXCEPT ![c] = CloneRx(entryVer, version)]
    /\ cquiet' = [cquiet EXCEPT ![c] = TRUE]
    /\ UNCHANGED <<value, version, closed, entryVer, everSet, retracted, cres, csusp>>
    /\ UNCHANGED <<rvars, tvars>>

\* A task calls entry.try_get().
StartTryGet(c) ==
    /\ cpc[c] = "idle"
    /\ cpc' = [cpc EXCEPT ![c] = "recv"]
    /\ cop' = [cop EXCEPT ![c] = "try_get"]
    /\ cver' = [cver EXCEPT ![c] = CloneRx(entryVer, version)]
    /\ cquiet' = [cquiet EXCEPT ![c] = TRUE]
    /\ UNCHANGED <<value, version, closed, entryVer, everSet, retracted, cres, csusp>>
    /\ UNCHANGED <<rvars, tvars>>

\* Variant: the poll runs on the entry's own receiver, which keeps the
\* version it has seen.
SettleOnEntry(c, r, out) ==
    /\ cver' = [cver EXCEPT ![c] = r.seen]
    /\ entryVer' = r.seen
    /\ IF out.tag = "pending"
       THEN /\ cpc' = [cpc EXCEPT ![c] = "pending"]
            /\ csusp' = [csusp EXCEPT ![c] = TRUE]
            /\ cres' = cres
       ELSE IF out.tag = "continue"
       THEN UNCHANGED <<cpc, csusp, cres>>
       ELSE /\ cpc' = [cpc EXCEPT ![c] = "done"]
            /\ cres' = [cres EXCEPT ![c] = out]
            /\ csusp' = csusp
    /\ UNCHANGED <<value, version, closed, everSet, retracted, cop, cquiet>>
    /\ UNCHANGED <<rvars, tvars>>

\* What a poll of the call's recv() does to the consumer, given the outcome
\* the surrounding code makes of it.
Settle(c, r, out) ==
    /\ cver' = [cver EXCEPT ![c] = r.seen]
    /\ IF out.tag = "pending"
       THEN /\ cpc' = [cpc EXCEPT ![c] = "pending"]
            /\ csusp' = [csusp EXCEPT ![c] = TRUE]
            /\ cres' = cres
       ELSE IF out.tag = "continue"
       THEN UNCHANGED <<cpc, csusp, cres>>
       ELSE /\ cpc' = [cpc EXCEPT ![c] = "done"]
            /\ cres' = [cres EXCEPT ![c] = out]
            /\ csusp' = csusp
    /\ UNCHANGED <<value, version, closed, entryVer, everSet, retracted, cop, cquiet>>
    /\ UNCHANGED <<rvars, tvars>>

\* One iteration of the loop in get(): the task is runnable (first poll, or
\* woken by the channel) and polls rx.recv().
GetPoll(c) ==
    /\ cpc[c] = "recv"
    /\ cop[c] = "get"
    /\ LET r == WatchRecv(cver[c], value, version, closed, retracted)
       IN Settle(c, r, GetOutcome(r))

\* The single rx.recv().await of try_get().
TryGetPoll(c) ==
    /\ cpc[c] = "recv"
    /\ cop[c] = "try_get"
    /\ LET r == WatchRecv(cver[c], value, version, closed, retracted)
       IN Settle(c, r, TryGetOutcome(r))

\* The caller takes the result; the private clone is dropped.
SlotReturn(c) ==
    /\ cpc[c] = "done"
    /\ cpc' = [cpc EXCEPT ![c] = "idle"]
    /\ cop' = [cop EXCEPT ![c] = "none"]
    /\ cver' = [cver EXCEPT ![c] = 0]
    /\ cres' = [cres EXCEPT ![c] = NoOutcome]
    /\ csusp' = [csusp EXCEPT ![c] = FALSE]
    /\ cquiet' = [cquiet EXCEPT ![c] = FALSE]
    /\ UNCHANGED <<value, version, closed, entryVer, everSet, retracted>>
    /\ UNCHANGED <<rvars, tvars>>

\* Variant: dropping the call's receiver shuts the channel down.
AbandonCloses(c) ==
    /\ cop[c] = "get"
    /\ cpc[c] \in {"recv", "pending"}
    /\ cpc' = [d \in Consumers |-> IF d = c THEN "done"
                                   ELSE IF cpc[d] = "pending" THEN "recv" ELSE cpc[d]]
    /\ cop' = [cop EXCEPT ![c] = "abandoned"]
    /\ cver' = [cver EXCEPT ![c] = 0]
    /\ cquiet' = [cquiet EXCEPT ![c] = TRUE]
    /\ closed' = TRUE
    /\ UNCHANGED <<value, version, entryVer, everSet, retracted, cres, csusp>>
    /\ UNCHANGED <<rvars, tvars>>

\* The caller drops the future of a get() that has not returned, at its await
\* point (parked, or woken and not yet polled): the private clone rx is
\* dropped with it and the call ends without a result.  From here on cquiet
\* records that nothing was published since the call was abandoned.
Abandon(c) ==
    /\ cop[c] = "get"
    /\ cpc[c] \in {"recv", "pending"}
    /\ cpc' = [cpc EXCEPT ![c] = "done"]
    /\ cop' = [cop EXCEPT ![c] = "abandoned"]
    /\ cver' = [cver EXCEPT ![c] = 0]
    /\ cquiet' = [cquiet EXCEPT ![c] = TRUE]
    /\ UNCHANGED <<value, version, closed, entryVer, everSet, retracted, cres, csusp>>
    /\ UNCHANGED <<rvars, tvars>>

\* notify_all: every receiver parked in recv() is woken.
Woken(pcs) == [c \in Consumers |-> IF pcs[c] = "pending" THEN "recv" ELSE pcs[c]]

\* The producer publishes Some(sink) or None through the Sender.
Broadcast(v) ==
    /\ ~closed
    /\ version <= MaxPublish
    /\ value' = v
    /\ version' = version + 1
    /\ everSet' = (everSet \/ v # NoSink)
    /\ retracted' = IF v = NoSink /\ value # NoSink THEN value ELSE retracted
    /\ cpc' = Woken(cpc)
    /\ cquiet' = [c \in Consumers |-> FALSE]
    /\ UNCHANGED <<closed, entryVer, cop, cver, cres, csusp>>
    /\ UNCHANGED <<rvars, tvars>>

\* The producer drops the Sender: the session is gone.
DropSender ==
    /\ ~closed
    /\ closed' = TRUE
    /\ cpc' = Woken(cpc)
    /\ cquiet' = [c \in Consumers |-> FALSE]
    /\ UNCHANGED <<value, version, entryVer, everSet, retracted, cop, cver, cres, csusp>>
    /\ UNCHANGED <<rvars, tvars>>

SNext ==
    \/ \E c \in Consumers : StartGet(c)
    \/ \E c \in Consumers : StartTryGet(c)
    \/ \E c \in Consumers : GetPoll(c)
    \/ \E c \in Consumers : TryGetPoll(c)
    \/ \E c \in Consumers : SlotReturn(c)
    \/ \E v \in CellValues : Broadcast(v)
    \/ DropSender

\* ----------------------------------------------------------- table: model
\* An empty table, as <EventSinkMap<T> as Default>::default() builds it.
TInit ==
    /\ tslots = [k \in Keys |-> NoSlot]
    /\ treaders = {}
    /\ twriter = NoTask
    /\ tnextSlot = 1
    /\ tmade = [k \in Keys |-> 0]
    /\ tpc = [t \in Tasks |-> "idle"]
    /\ tkey = [t \in Tasks |-> 1]
    /\ tres = [t \in Tasks |-> NoSlot]

\* A producer or a consumer calls entry(key) on the table.
EntryCall(t, k) ==
    /\ tpc[t] = "idle"
    /\ tpc' = [tpc EXCEPT ![t] = "e_wait"]
    /\ tkey' = [tkey EXCEPT ![t] = k]
    /\ tres' = [tres EXCEPT ![t] = NoSlot]
    /\ UNCHANGED <<tslots, treaders, twriter, tnextSlot, tmade>>
    /\ UNCHANGED <<rvars, svars>>

\* The table's shared lock is granted: no task holds it exclusively.
EntryReadLock(t) ==
    /\ tpc[t] = "e_wait"
    /\ twriter = NoTask
    /\ treaders' = treaders \cup {t}
    /\ tpc' = [tpc EXCEPT ![t] = "e_locked"]
    /\ UNCHANGED <<tslots, twriter, tnextSlot, tmade, tkey, tres>>
    /\ UNCHANGED <<rvars, svars>>

\* Probe under the shared lock, then release it: a hit returns the slot, a
\* miss goes on to the exclusive lock.
EntryProbe(t) ==
    /\ tpc[t] = "e_locked"
    /\ treaders' = treaders \ {t}
    /\ IF tslots[tkey[t]] # NoSlot
       THEN /\ tres' = [tres EXCEPT ![t] = tslots[tkey[t]]]
            /\ tpc' = [tpc EXCEPT ![t] = "done"]
       ELSE /\ tres' = tres
            /\ tpc' = [tpc EXCEPT ![t] = "e_wwait"]
    /\ UNCHANGED <<tslots, twriter, tnextSlot, tmade, tkey>>
    /\ UNCHANGED <<rvars, svars>>

\* The table's exclusive lock is granted: nobody holds it in either mode.
EntryWriteLock(t) ==
    /\ tpc[t] = "e_wwait"
    /\ twriter = NoTask
    /\ treaders = {}
    /\ twriter' = t
    /\ tpc' = [tpc EXCEPT ![t] = "e_wlocked"]
    /\ UNCHANGED <<tslots, treaders, tnextSlot, tmade, tkey, tres>>
    /\ UNCHANGED <<rvars, svars>>

\* Variant: the fresh slot replaces whatever the key holds.
SlotInsertOverwrite(slots, k, fresh) == [slots EXCEPT ![k] = fresh]

\* Re-probe under the exclusive lock: an existing slot is kept, a missing one
\* is replaced by the fresh Unset slot.
SlotInsert(slots, k, fresh) ==
    IF slots[k] # NoSlot THEN slots ELSE [slots EXCEPT ![k] = fresh]

\* Under the exclusive lock: reuse or insert, release the lock, return the slot.
EntryInsertSlot(t) ==
    /\ tpc[t] = "e_wlocked"
    /\ LET k == tkey[t]
           after == SlotInsert(tslots, k, tnextSlot)
       IN /\ tslots' = after
          /\ tres' = [tres EXCEPT ![t] = after[k]]
          /\ IF after[k] = tnextSlot
             THEN /\ tnextSlot' = tnextSlot + 1
                  /\ tmade' = [tmade EXCEPT ![k] = @ + 1]
             ELSE UNCHANGED <<tnextSlot, tmade>>
    /\ twriter' = NoTask
    /\ tpc' = [tpc EXCEPT ![t] = "done"]
    /\ UNCHANGED <<treaders, tkey>>
    /\ UNCHANGED <<rvars, svars>>

\* The caller keeps the slot handle; the task may call again.
EntryReturn(t) ==
    /\ tpc[t] = "done"
    /\ tpc' = [tpc EXCEPT ![t] = "idle"]
    /\ tkey' = [tkey EXCEPT ![t] = 1]
    /\ tres' = [tres EXCEPT ![t] = NoSlot]
    /\ UNCHANGED <<tslots, treaders, twriter, tnextSlot, tmade>>
    /\ UNCHANGED <<rvars, svars>>

TNext ==
    \E t \in Tasks :
        \/ \E k \in Keys : EntryCall(t, k)
        \/ EntryReadLock(t)
        \/ EntryProbe(t)
        \/ EntryWriteLock(t)
        \/ EntryInsertSlot(t)
        \/ EntryReturn(t)

\* --------------------------------------------------------- specifications
vars == <<rvars, svars, tvars>>

Init == RInit /\ SInit /\ TInit

\* The registry with the slot at rest, and the slot with the registry at rest.
Spec == Init /\ [][RNext]_vars
SlotSpec == Init /\ [][SNext]_vars
TableSpec == Init /\ [][TNext]_vars

\* map.read().await on a fair lock: requests are served in turn, so a shared
\* request made while an exclusive request waits is queued behind it.
FairTryGetLock(t) ==
    /\ \A u \in Tasks : rpc[u] # "cr_wait"
    /\ TryGetLock(t)

FairRNext ==
    \E t \in Tasks :
        \/ \E k \in Kinds : CallLookup(t, k)
        \/ \E k \in Kinds : CallGetOrCreate(t, k)
        \/ FairTryGetLock(t)
        \/ TryGetProbe(t)
        \/ LookupUnwrap(t)
        \/ OrElse(t)
        \/ CreateLock(t)
        \/ CreateInsert(t)
        \/ CreateDowncast(t)
        \/ RegistryReturn(t)

\* A step of a call in progress that needs no lock grant.
RunStep(t) ==
    \/ TryGetProbe(t)
    \/ LookupUnwrap(t)
    \/ OrElse(t)
    \/ CreateInsert(t)
    \/ CreateDowncast(t)

\* Any step of a call in progress, lock grants included.
TaskStep(t) == FairTryGetLock(t) \/ CreateLock(t) \/ RunStep(t)

\* The registry under a fair scheduler: a call that stays able to take its
\* next step (to run, or to be granted the lock it waits for) takes it.
RegistryFair == \A t \in Tasks : WF_vars(TaskStep(t))

FairSpec == Init /\ [][FairRNext]_vars /\ RegistryFair

\* The slot with get() callers only; the runtime polls every task that is
\* runnable (first poll, or woken by the channel).
GetNext ==
    \/ \E c \in Consumers : StartGet(c)
    \/ \E c \in Consumers : GetPoll(c)
    \/ \E c \in Consumers : SlotReturn(c)
    \/ \E v \in CellValues : Broadcast(v)
    \/ DropSender
SlotFair == \A c \in Consumers : WF_vars(GetPoll(c))
FairSlotSpec == Init /\ [][GetNext]_vars /\ SlotFair

\* Registry callers, one call each, running alongside get() calls that wait
\* on the slot while the producer publishes nothing.
WaitNext ==
    \/ \E c \in Consumers : StartGet(c)
    \/ \E c \in Consumers : GetPoll(c)
    \/ \E t \in Tasks :
          \/ \E k \in Kinds : CallLookup(t, k)
          \/ \E k \in Kinds : CallGetOrCreate(t, k)
          \/ TryGetLock(t)
          \/ TryGetProbe(t)
          \/ LookupUnwrap(t)
          \/ OrElse(t)
          \/ CreateLock(t)
          \/ CreateInsert(t)
          \/ CreateDowncast(t)
WaitSpec == Init /\ [][WaitNext]_vars

\* The slot with get() callers that may abandon their call.
AbandonNext ==
    \/ \E c \in Consumers : StartGet(c)
    \/ \E c \in Consumers : GetPoll(c)
    \/ \E c \in Consumers : Abandon(c)
    \/ \E c \in Consumers : SlotReturn(c)
    \/ \E v \in CellValues : Broadcast(v)
    \/ DropSender
AbandonSpec == Init /\ [][AbandonNext]_vars /\ SlotFair

\* ------------------------------------------------------- registry: claims

\* C1: under concurrent first-time get_or_create calls for one kind, at most
\* one table is ever constructed for the kind, and every completed call holds
\* the one table that is registered for it (an occupied entry is reused).
C1_SingleTablePerKind ==
    /\ \A k \in Kinds : constructed[k] <= 1
    /\ \A t \in Tasks :
         (rop[t] = "create" /\ rpc[t] = "done") =>
            /\ constructed[rkind[t]] = 1
            /\ rres[t] = OkTable(registry[rkind[t]])
    /\ \A t, u \in Tasks :
         (/\ rop[t] = "create" /\ rop[u] = "create" /\ rkind[t] = rkind[u]
          /\ rpc[t] = "done" /\ rpc[u] = "done") => rres[t] = rres[u]

\* Two tasks both missed the shared-lock probe for the same kind and both went
\* through the exclusive section; they hold the same table.
C1_Witness ==
    \E t, u \in Tasks :
        /\ t # u /\ rkind[t] = rkind[u]
        /\ rop[t] = "create" /\ rop[u] = "create"
        /\ rpc[t] = "cr_cast" /\ rpc[u] = "cr_cast"
        /\ rres[t].table = rres[u].table /\ rres[t].table # NoTable

LookupStep(t) ==
    /\ rpc'[t] # rpc[t]
    /\ IF rpc[t] = "idle" THEN rop'[t] = "lookup" ELSE rop[t] = "lookup"

\* C3: no step of a read-only lookup changes the registry: the registered
\* kinds and their tables are the same after the step, hit or miss.
C3_LookupLeavesRegistry ==
    [][\A t \in Tasks : LookupStep(t) =>
          (registry' = registry /\ constructed' = constructed)]_vars

\* One lookup found its table and returned it, another missed.
C3_Witness ==
    \E t, u \in Tasks :
        /\ rop[t] = "lookup" /\ rpc[t] = "done"
        /\ rres[t] = OkTable(registry[rkind[t]])
        /\ rop[u] = "lookup" /\ rpc[u] = "panicked"

\* The kind a step of task t works on: the kind of the call in progress, or of
\* the call the step starts.
StepKind(t) == IF rpc[t] = "idle" THEN rkind'[t] ELSE rkind[t]

\* C11: tables of distinct kinds are isolated: two registered kinds never
\* share a table, completed calls for different kinds hold different tables,
\* and no step of a call for one kind changes the registry entry (present or
\* absent) of any other kind.
C11_KindsIsolated ==
    /\ [](\A j, k \in Kinds :
            (j # k /\ registry[j] # NoTable /\ registry[k] # NoTable)
               => registry[j].id # registry[k].id)
    /\ [](\A t, u \in Tasks :
            (/\ rpc[t] = "done" /\ rpc[u] = "done" /\ rkind[t] # rkind[u])
               => rres[t].table.id # rres[u].table.id)
    /\ [][\A t \in Tasks : rpc'[t] # rpc[t] =>
            \A j \in Kinds \ {StepKind(t)} : registry'[j] = registry[j]]_vars

\* Two get_or_create calls for different kinds have both returned, each with
\* the table registered for its own kind.
C11_Witness ==
    \E t, u \in Tasks :
        /\ rop[t] = "create" /\ rop[u] = "create"
        /\ rpc[t] = "done" /\ rpc[u] = "done"
        /\ rkind[t] # rkind[u]
        /\ rres[t].table # rres[u].table
        /\ rres[t].table = registry[rkind[t]]
        /\ rres[u].table = registry[rkind[u]]

\* C13: every registered kind maps to a table of that kind's table type, so
\* neither checked downcast fails: a get_or_create call never panics, and a
\* lookup panics only at its unwrap of a miss, never in the downcast.
C13_RegistryWellTyped ==
    /\ [](\A k \in Kinds : registry[k] # NoTable => DowncastOk(registry[k], k))
    /\ [](\A t \in Tasks : rop[t] = "create" => rpc[t] # "panicked")
    /\ [][\A t \in Tasks :
            (rpc[t] \in {"tg_locked", "cr_cast"} /\ rpc'[t] # rpc[t])
               => rpc'[t] # "panicked"]_vars

\* A probe hit has been downcast by a lookup while a get_or_create call sits
\* between its insertion and its own downcast of the type-erased handle.
C13_Witness ==
    \E t, u \in Tasks :
        /\ rop[t] = "lookup" /\ rpc[t] = "tg_ret" /\ rres[t].tag = "Ok"
        /\ rop[u] = "create" /\ rpc[u] = "cr_cast" /\ rres[u].tag = "erased"
        /\ DowncastOk(rres[u].table, rkind[u])

\* C14: a registered entry is never removed or replaced, whatever operations
\* run on any kind, and every call that completes returns the table that is
\* registered for its kind.
C14_EntriesStable ==
    /\ [][\A k \in Kinds :
            registry[k] # NoTable => registry'[k] = registry[k]]_vars
    /\ [](\A t \in Tasks :
            rpc[t] = "done" => /\ registry[rkind[t]] # NoTable
                               /\ rres[t] = OkTable(registry[rkind[t]]))

\* Both kinds are registered; a lookup and a get_or_create call for the same
\* kind, made after the registration, hold the same registered table.
C14_Witness ==
    \E t, u \in Tasks :
        /\ \A k \in Kinds : registry[k] # NoTable
        /\ rop[t] = "lookup" /\ rop[u] = "create" /\ rkind[t] = rkind[u]
        /\ rpc[t] = "done" /\ rpc[u] = "done"
        /\ rres[t] = rres[u] /\ rres[t] = OkTable(registry[rkind[t]])

\* C15: a get_or_create call asks for the exclusive lock only after its probe
\* under the shared lock missed; a probe that finds the table yields Ok, and
\* from there the call returns without passing through the exclusive lock.
C15_WriteLockOnlyAfterMiss ==
    /\ [](\A t \in Tasks :
            rpc[t] \in {"cr_wait", "cr_locked"} => rres[t] = ErrUnit)
    /\ [][\A t \in Tasks :
            /\ (rpc'[t] = "cr_wait" /\ rpc[t] # "cr_wait")
                  => (rpc[t] = "tg_ret" /\ rres[t] = ErrUnit)
            /\ (/\ rop[t] = "create" /\ rpc[t] = "tg_locked" /\ rpc'[t] # rpc[t]
                /\ registry[rkind[t]] # NoTable)
                  => rres'[t] = OkTable(registry[rkind[t]])
            /\ (/\ rop[t] = "create" /\ rpc[t] = "tg_ret" /\ rpc'[t] # rpc[t]
                /\ rres[t].tag = "Ok")
                  => (rpc'[t] = "done" /\ writer' = writer)]_vars

\* A get_or_create call found its table at the probe and has returned while
\* another call, whose probe missed, holds the exclusive lock.
C15_Witness ==
    \E t, u \in Tasks :
        /\ rop[t] = "create" /\ rpc[t] = "tg_ret" /\ rres[t].tag = "Ok"
        /\ rop[u] = "create" /\ rpc[u] = "cr_locked" /\ writer = u

\* Task t is inside a registry call that has neither returned nor panicked.
InCall(t) == rpc[t] \notin {"idle", "done", "panicked"}

StepKey(t) == IF tpc[t] = "idle" THEN tkey'[t] ELSE tkey[t]

\* C12: entry(key) returns the existing slot of the key or inserts a fresh
\* one: at most one slot is ever created per key, a key's slot is never
\* replaced, every completed call holds the slot of its key (so two calls for
\* one key hold the same slot), and no step of a call for one key changes the
\* slot of another key.
C12_OneSlotPerKey ==
    /\ [](\A k \in Keys : tmade[k] <= 1)
    /\ [](\A t \in Tasks :
            tpc[t] = "done" => (tres[t] # NoSlot /\ tres[t] = tslots[tkey[t]]))
    /\ [](\A t, u \in Tasks :
            (tpc[t] = "done" /\ tpc[u] = "done")
               => (tres[t] = tres[u] <=> tkey[t] = tkey[u]))
    /\ [][\A k \in Keys : tslots[k] # NoSlot => tslots'[k] = tslots[k]]_vars
    /\ [][\A t \in Tasks : tpc'[t] # tpc[t] =>
            \A j \in Keys \ {StepKey(t)} : tslots'[j] = tslots[j]]_vars

\* Two calls for one key both missed the probe under the shared lock; the
\* first inserted the slot, the second went through the exclusive section
\* after it, and both returned the same slot.
C12_Witness ==
    \E t, u \in Tasks :
        /\ t # u /\ tkey[t] = tkey[u]
        /\ tpc[t] = "done" /\ tpc[u] = "done"
        /\ tres[t] = tres[u] /\ tres[t] = tnextSlot - 1
        /\ tmade[tkey[t]] = 1
        /\ \E j \in Keys : tslots[j] = NoSlot

\* ----------------------------------------------------------- slot: claims

\* Consumer c is inside a get() call that has not returned.
InGet(c) == cop[c] = "get" /\ cpc[c] \in {"recv", "pending"}

\* The step in which c's call returns.
GetCompletes(c) == cop[c] = "get" /\ cpc[c] # "done" /\ cpc'[c] = "done"
TryGetCompletes(c) == cop[c] = "try_get" /\ cpc[c] # "done" /\ cpc'[c] = "done"

\* C4: a get() on an open slot does not return while the slot is Unset (when
\* it returns from an open slot, the slot holds a sink and that sink is the
\* result), and a get() in progress while the open slot holds a sink leads to
\* the call having returned Ok, unless the producer retracts the sink or
\* closes the slot first: if Set(v) is left in place, the call returns Ok(v).
C4_WaitThenDeliver ==
    /\ [][\A c \in Consumers : (GetCompletes(c) /\ ~closed) =>
            (value # NoSink /\ cres'[c] = OkSink(value))]_vars
    /\ \A c \in Consumers :
         (InGet(c) /\ value # NoSink /\ ~closed) ~>
            \/ cpc[c] = "done" /\ cres[c] = OkSink(value)
            \/ value = NoSink
            \/ closed

\* Two calls were both suspended on the Unset slot and both returned the sink
\* that was then published.
C4_Witness ==
    \E c, d \in Consumers :
        /\ c # d /\ ~closed /\ value # NoSink
        /\ cop[c] = "get" /\ cpc[c] = "done" /\ csusp[c] /\ cres[c] = OkSink(value)
        /\ cop[d] = "get" /\ cpc[d] = "done" /\ csusp[d] /\ cres[d] = OkSink(value)

\* C5: once the producer has dropped the sender without ever publishing a
\* sink, every get() in progress (suspended or not) eventually returns
\* Err("Session closed").
C5_ClosedEndsWait ==
    \A c \in Consumers :
        (InGet(c) /\ closed /\ ~everSet) ~> (cpc[c] = "done" /\ cres[c] = ErrClosed)

\* A call that had been suspended returned the error; no sink was ever published.
C5_Witness ==
    \E c \in Consumers :
        /\ cop[c] = "get" /\ cpc[c] = "done" /\ csusp[c]
        /\ cres[c] = ErrClosed /\ closed /\ ~everSet

\* C6 (as stated): a get() that starts on a slot that is already Closed returns
\* Err(SessionClosed), whatever the slot held when it was closed.
C6_ClosedGetIsError ==
    \A c \in Consumers :
        (cop[c] = "get" /\ cpc[c] = "done" /\ closed /\ cquiet[c]) =>
            cres[c] = ErrClosed

\* C7: the sink get() returns is the slot's current value at the moment the
\* call reads it, and a call during which nothing was published on an open
\* slot returns the slot's current sink without error, whatever was published
\* and retracted before the call began.
C7_ReturnsCurrentSink ==
    /\ [][\A c \in Consumers : (GetCompletes(c) /\ cres'[c].tag = "Ok") =>
            (value # NoSink /\ cres'[c].sink = value)]_vars
    /\ [](\A c \in Consumers :
            (cop[c] = "get" /\ cpc[c] = "done" /\ cquiet[c] /\ ~closed) =>
                (value # NoSink /\ cres[c] = OkSink(value)))

\* The slot went Set(a), Unset, Set(b) with a # b before the call began, and
\* the call returned b.
C7_Witness ==
    \E c \in Consumers :
        /\ cop[c] = "get" /\ cpc[c] = "done" /\ cquiet[c] /\ ~closed
        /\ retracted # NoSink /\ value # NoSink /\ retracted # value
        /\ cres[c] = OkSink(value)

\* C8: try_get() never suspends: no poll of a try_get() call is Pending, in
\* any slot state and whatever calls ran on the entry before or alongside.
C8_TryGetNeverSuspends ==
    \A c \in Consumers :
        cop[c] = "try_get" => (cpc[c] # "pending" /\ ~csusp[c])

\* try_get() returned on an open Unset slot on which a get() is suspended.
C8_Witness ==
    \E c, d \in Consumers :
        /\ cop[c] = "try_get" /\ cpc[c] = "done" /\ cquiet[c]
        /\ value = NoSink /\ ~closed
        /\ cop[d] = "get" /\ cpc[d] = "pending"

\* C9: on an open slot try_get() returns a snapshot of the cell at the moment
\* of the call: the sink when it is Set, nothing when it is Unset.
C9_TryGetSnapshot ==
    [][\A c \in Consumers : (TryGetCompletes(c) /\ ~closed) =>
          cres'[c] = IF value = NoSink THEN Nothing ELSE SomeSink(value)]_vars

\* try_get() returned the current sink although an earlier, different sink had
\* been published and retracted.
C9_Witness ==
    \E c \in Consumers :
        /\ cop[c] = "try_get" /\ cpc[c] = "done" /\ ~closed /\ cquiet[c]
        /\ retracted # NoSink /\ value # NoSink /\ retracted # value
        /\ cres[c] = SomeSink(value)

\* C10 (as stated): try_get() on a slot that is Closed when the call starts
\* returns nothing, whatever the slot held when it was closed.
C10_ClosedTryGetIsNothing ==
    \A c \in Consumers :
        (cop[c] = "try_get" /\ cpc[c] = "done" /\ closed /\ cquiet[c]) =>
            cres[c] = Nothing

\* C17: get() returns the error only when the slot is Closed: on an open slot
\* a call that returns returns Ok, so no sequence of Set / Unset publications
\* before or during the call, a retraction included, makes it fail.
C17_ErrorOnlyWhenClosed ==
    /\ [][\A c \in Consumers :
            /\ (GetCompletes(c) /\ cres'[c] = ErrClosed) => closed
            /\ (GetCompletes(c) /\ ~closed) => cres'[c].tag = "Ok"]_vars
    /\ [](\A c \in Consumers :
            (cop[c] = "get" /\ cpc[c] = "done" /\ cres[c] = ErrClosed) => closed)

\* A sink was published and retracted; the call has read the retraction and
\* is parked again on the open Unset slot.
C17_Witness ==
    \E c \in Consumers :
        /\ InGet(c) /\ cpc[c] = "pending" /\ csusp[c]
        /\ retracted # NoSink /\ value = NoSink /\ ~closed
        /\ cver[c] = version

\* A step of a get() or try_get() call of consumer c.
ReadStep(c) == cop'[c] # cop[c] \/ cver'[c] # cver[c] \/ cres'[c] # cres[c]

\* C18: get() and try_get() are pure reads on a private clone: no step of a
\* call changes what the slot publishes or the version the entry's own
\* receiver has seen; hence a call during which nothing is published on a Set
\* slot is never parked and returns the slot's sink, however many calls read
\* it before or alongside.
C18_ReadsArePure ==
    /\ [][\A c \in Consumers : ReadStep(c) =>
            UNCHANGED <<value, version, closed, entryVer>>]_vars
    /\ [](\A c \in Consumers :
            (cop[c] \in {"get", "try_get"} /\ cquiet[c] /\ value # NoSink) =>
                /\ cpc[c] # "pending" /\ ~csusp[c]
                /\ cpc[c] = "done" =>
                      cres[c] = IF cop[c] = "get" THEN OkSink(value)
                                ELSE SomeSink(value))

\* A get() and a try_get() on the same entry both read the sink that was
\* published before either began.
C18_Witness ==
    \E c, d \in Consumers :
        /\ c # d /\ value # NoSink
        /\ cop[c] = "get" /\ cpc[c] = "done" /\ cquiet[c] /\ cres[c] = OkSink(value)
        /\ cop[d] = "try_get" /\ cpc[d] = "done" /\ cquiet[d]
        /\ cres[d] = SomeSink(value)

\* The step in which consumer c abandons its get().
Abandons(c) == cop[c] = "get" /\ cop'[c] = "abandoned"

\* C19: abandoning a get() changes neither the slot nor any other call; no
\* parked call misses a publication or the close; a call that returns
\* returns the slot's sink, or the error on a closed slot; and no call stays
\* in progress for ever on a slot that is Set or Closed: it ends, unless the
\* producer retracts the sink first.
C19_AbandonIsLocal ==
    /\ [][\A c \in Consumers : Abandons(c) =>
            /\ UNCHANGED <<value, version, closed, entryVer>>
            /\ \A d \in Consumers \ {c} :
                  /\ cpc'[d] = cpc[d] /\ cop'[d] = cop[d] /\ cver'[d] = cver[d]
                  /\ cres'[d] = cres[d] /\ csusp'[d] = csusp[d]]_vars
    /\ [](\A d \in Consumers :
            cpc[d] = "pending" => (cver[d] = version /\ ~closed))
    /\ [][\A d \in Consumers : (GetCompletes(d) /\ ~Abandons(d)) =>
            \/ value # NoSink /\ cres'[d] = OkSink(value)
            \/ closed /\ cres'[d] = ErrClosed]_vars
    /\ \A d \in Consumers :
          []<>(~InGet(d) \/ (value = NoSink /\ ~closed))

\* One call was abandoned; a sink was published after that, and another
\* call, which had been parked, returned the sink.
C19_Witness ==
    \E c, d \in Consumers :
        /\ cop[c] = "abandoned" /\ cpc[c] = "done" /\ ~cquiet[c]
        /\ cop[d] = "get" /\ cpc[d] = "done" /\ csusp[d]
        /\ cver[d] = version /\ cres[d] = OkSink(value)

\* C20: a get() call holds no lock: no step of a call touches the registry
\* lock or a table lock, the registry lock is held exactly by the registry
\* calls inside their critical sections, and a registry call's lock request
\* is refused only while another registry call is inside its critical
\* section, however many get() calls are parked on the slot.
C20_WaitersHoldNoLock ==
    /\ [][\A c \in Consumers : (ReadStep(c) \/ cpc'[c] # cpc[c]) =>
            UNCHANGED <<readers, writer, treaders, twriter>>]_vars
    /\ [](/\ readers = {t \in Tasks : rpc[t] = "tg_locked"}
          /\ \A t \in Tasks : writer = t <=> rpc[t] = "cr_locked"
          /\ treaders = {} /\ twriter = NoTask)
    /\ [](\A t \in Tasks :
            /\ rpc[t] = "tg_wait" =>
                  (ENABLED TryGetLock(t) <=> \A u \in Tasks : rpc[u] # "cr_locked")
            /\ rpc[t] = "cr_wait" =>
                  (ENABLED CreateLock(t) <=>
                      \A u \in Tasks : rpc[u] \notin {"tg_locked", "cr_locked"}))

\* Every consumer is parked in get() on the Unset slot while one registry
\* call has returned its table and another is about to be granted the lock.
C20_Witness ==
    /\ \A c \in Consumers : cop[c] = "get" /\ cpc[c] = "pending"
    /\ value = NoSink /\ ~closed
    /\ \E t, u \in Tasks :
          /\ rop[t] = "create" /\ rpc[t] = "done"
          /\ rpc[u] = "tg_wait" /\ ENABLED TryGetLock(u)
====
